---- MODULE Spec2Model ----
(***************************************************************************)
(* Beds24 booking reports (src/main.py): the token store, the credential   *)
(* resolution of Beds24APIClient.authenticate, the three-query booking     *)
(* fetch with de-duplication, parse_booking_data, the categorisation of    *)
(* reservations, and the report page that runs them (main).                *)
(*                                                                         *)
(* Conventions.                                                            *)
(*  - Python's None for an Optional[str] is the string "None"; "" is the   *)
(*    empty string.  Truthy is Python truthiness of such a value.          *)
(*  - The clock datetime.now() is a natural number.  An Optional[datetime] *)
(*    and the stored 'expires_at' (an ISO text or null) are sequences of   *)
(*    length at most one: <<>> is None/null, <<t>> the instant t.  For a   *)
(*    naive datetime isoformat()/fromisoformat() is an exact round trip,   *)
(*    so the ISO text is represented by the instant it denotes.            *)
(*  - TokenStorage.tokens and the token file are one variable: the file is *)
(*    written by every store_tokens and removed by clear_tokens, and a     *)
(*    client constructed later loads what was written (I/O failures of the *)
(*    disk are outside the model).                                         *)
(***************************************************************************)
EXTENDS Integers, Sequences, FiniteSets, TLC

VARIABLES
    tokens,         \* TokenStorage.tokens (= tokens.json)
    access_token,   \* Beds24APIClient.access_token
    refresh_token,  \* Beds24APIClient.refresh_token
    now,            \* the wall clock, datetime.now()
    ret,            \* the last operation: its inputs, what it observed, what it returned
    fetched,        \* the last fetch_all_relevant_bookings: responses, queries issued, result
    cat,            \* the last categorize_reservations: input, target date, the three lists
    run             \* the last report run: records parsed, what the page showed and offered

vars == <<tokens, access_token, refresh_token, now, ret, fetched, cat, run>>

---------------------------------------------------------------------------
(* Bounds of the model *)

MaxTime == 2        \* the clock runs 0..MaxTime
MaxDelay == 1       \* the clock may advance this much between two reads inside authenticate
MaxLifetime == 1    \* the largest 'expiresIn' the server declares
MaxRecords == 3     \* the three queries of one fetch return at most this many records
MaxReservations == 2 \* the longest list of reservations that is categorized
MaxMainRecords == 2 \* the three queries of one report run return at most this many records
MaxServerBookings == 2 \* the server holds at most this many bookings

---------------------------------------------------------------------------
(* Python values *)

None == "None"

Truthy(v) == v # None /\ v # ""

\* a or b
PyOr(a, b) == IF Truthy(a) THEN a ELSE b

\* {}  (TokenStorage.tokens when nothing is stored)
EmptyDict == [k \in {} |-> None]

\* the None that get_tokens returns
NoneDict == [k \in {"None"} |-> None]

DictTruthy(d) == d # EmptyDict /\ d # NoneDict

\* d.get('expires_at') is truthy: a non-null ISO text
HasExpiry(d) == d.expires_at # <<>>

\* datetime.fromisoformat(d['expires_at'])
ExpiresAt(d) == d.expires_at[1]

---------------------------------------------------------------------------
(* TokenStorage *)

\* (mutant) store_tokens that never writes the expiry
store_tokens_NoExpiry(access, refresh, token_type, expires_at, t) ==
    [access_token  |-> access,
     refresh_token |-> refresh,
     token_type    |-> token_type,
     expires_at    |-> <<>>,
     last_updated  |-> <<t>>]

\* store_tokens(access_token, refresh_token, token_type, expires_at) at clock t:
\* the dictionary that becomes self.tokens and is saved.
store_tokens(access, refresh, token_type, expires_at, t) ==
    [access_token  |-> access,
     refresh_token |-> refresh,
     token_type    |-> token_type,
     expires_at    |-> IF expires_at # <<>> THEN expires_at ELSE <<>>,
     last_updated  |-> <<t>>]

\* (mutant) get_tokens that tests datetime.now() > expires_at
get_tokens_StrictExpiry(toks, t) ==
    IF toks = EmptyDict THEN NoneDict
    ELSE IF HasExpiry(toks) /\ t > ExpiresAt(toks)
         THEN IF Truthy(toks.refresh_token) THEN toks ELSE NoneDict
         ELSE toks

\* get_tokens() read at clock t
get_tokens(toks, t) ==
    IF toks = EmptyDict THEN NoneDict
    ELSE IF HasExpiry(toks) /\ t >= ExpiresAt(toks)
         THEN IF Truthy(toks.refresh_token) THEN toks ELSE NoneDict
         ELSE toks

\* clear_tokens()
clear_tokens(toks) == EmptyDict

---------------------------------------------------------------------------
(* The remote API as the client sees it *)

\* 'expiresIn' of a 2xx body: missing (the code defaults it to 0), a number of
\* seconds, or JSON null (timedelta(seconds=None) raises TypeError)
ExpiresInValues ==
    {[kind |-> "missing", n |-> 0], [kind |-> "null", n |-> 0]}
    \cup {[kind |-> "num", n |-> k] : k \in 1..MaxLifetime}

\* one answer of session.get + raise_for_status + json: a transport failure
\* (ConnectionError), a non-2xx status (HTTPError), or a 2xx body whose 'token'
\* and 'refreshToken' may be missing (dict.get gives None)
Responses ==
    [status : {"ok", "http_error", "transport_error"},
     token : {None, "a1", "a2"},
     refreshToken : {None, "r3"},
     expiresIn : ExpiresInValues]

\* responses that differ only in fields a failed call never reads are one response
NormalResponses ==
    {r \in Responses :
        r.status # "ok" => (r.token = None /\ r.refreshToken = None
                            /\ r.expiresIn.kind = "missing")}

NoResponse == [status |-> None, token |-> None, refreshToken |-> None,
               expiresIn |-> [kind |-> "missing", n |-> 0]]

\* the exception session.get / raise_for_status raises, None when the call succeeds
RequestFailure(resp) ==
    IF resp.status = "transport_error" THEN "ConnectionError"
    ELSE IF resp.status = "http_error" THEN "HTTPError"
    ELSE None

IsRequestException(e) == e \in {"ConnectionError", "HTTPError"}

---------------------------------------------------------------------------
(* Beds24APIClient.  A client state st is                                  *)
(*   [tokens, access_token, refresh_token, calls]                          *)
(* where calls is the log of the requests session.get has sent, each with  *)
(* its path and the credential in its header.                              *)
(* An exchange returns [st, raised]: the state it leaves and the exception *)
(* it raised (None when it returned).                                      *)

\* (mutant) authenticate_with_invite_code that stores the current time as the
\* expiry, without the lifetime the server declared
authenticate_with_invite_code_NoLifetime(st, invite_code, resp, t) ==
    LET sent == [st EXCEPT !.calls = Append(@, [url |-> "authentication/setup",
                                                header |-> invite_code])]
    IN  IF RequestFailure(resp) # None
        THEN [st |-> sent, raised |-> RequestFailure(resp)]
        ELSE LET got == [sent EXCEPT !.access_token = resp.token,
                                     !.refresh_token = resp.refreshToken]
             IN  IF resp.expiresIn.kind = "null"
                 THEN [st |-> got, raised |-> "TypeError"]
                 ELSE [st |-> [got EXCEPT !.tokens =
                                  store_tokens(got.access_token, got.refresh_token,
                                               "refresh", <<t>>, t)],
                       raised |-> None]

\* authenticate_with_invite_code(invite_code); the server answers resp, the
\* clock reads t when the expiry is computed
authenticate_with_invite_code(st, invite_code, resp, t) ==
    LET sent == [st EXCEPT !.calls = Append(@, [url |-> "authentication/setup",
                                                header |-> invite_code])]
    IN  IF RequestFailure(resp) # None
        THEN [st |-> sent, raised |-> RequestFailure(resp)]
        ELSE LET got == [sent EXCEPT !.access_token = resp.token,
                                     !.refresh_token = resp.refreshToken]
             IN  IF resp.expiresIn.kind = "null"
                 THEN [st |-> got, raised |-> "TypeError"]
                 ELSE [st |-> [got EXCEPT !.tokens =
                                  store_tokens(got.access_token, got.refresh_token,
                                               "refresh", <<t + resp.expiresIn.n>>, t)],
                       raised |-> None]

\* authenticate_with_refresh_token(refresh_token)
authenticate_with_refresh_token(st, refresh, resp, t) ==
    LET sent == [st EXCEPT !.calls = Append(@, [url |-> "authentication/token",
                                                header |-> refresh])]
    IN  IF RequestFailure(resp) # None
        THEN [st |-> sent, raised |-> RequestFailure(resp)]
        ELSE LET got == [sent EXCEPT !.access_token = resp.token,
                                     !.refresh_token = refresh]
             IN  IF resp.expiresIn.kind = "null"
                 THEN [st |-> got, raised |-> "TypeError"]
                 ELSE [st |-> [got EXCEPT !.tokens =
                                  store_tokens(got.access_token, got.refresh_token,
                                               "refresh", <<t + resp.expiresIn.n>>, t)],
                       raised |-> None]

\* what authenticate returns: (ok, message), the message split into its fixed
\* text and the str(e) it carries
Return(st, ok, msg, cause) == [st |-> st, ok |-> ok, msg |-> msg, cause |-> cause]

\* the except clauses of authenticate (lines 180-183) around an exchange that
\* raised e, or the success return when it did not
Outcome(x, success_msg) ==
    IF x.raised = None THEN Return(x.st, TRUE, success_msg, None)
    ELSE IF IsRequestException(x.raised)
         THEN Return(x.st, FALSE, "Authentication failed", x.raised)
         ELSE Return(x.st, FALSE, "Unexpected error during authentication", x.raised)

\* (mutant) the refresh of an expired stored bundle that sends no request and
\* keeps the stored access token
RefreshStored_NoExchange(st, resp, t) ==
    Return(st, TRUE, "Successfully refreshed authentication", None)

\* (mutant) the refresh of an expired stored bundle that sends the request a
\* second time when the first one failed
RefreshStored_Retry(st, resp, t) ==
    LET x == authenticate_with_refresh_token(st, st.refresh_token, resp, t)
        y == authenticate_with_refresh_token(x.st, st.refresh_token, resp, t)
    IN  IF x.raised = None
        THEN Return(x.st, TRUE, "Successfully refreshed authentication", None)
        ELSE IF IsRequestException(x.raised)
             THEN Return(y.st, FALSE, "Failed to refresh token", y.raised)
             ELSE Return(x.st, FALSE, "Unexpected error during authentication", x.raised)

\* (mutant) the refresh of an expired stored bundle that clears the token
\* store when the exchange fails
RefreshStored_ClearOnFailure(st, resp, t) ==
    LET x == authenticate_with_refresh_token(st, st.refresh_token, resp, t)
        cleared == [x.st EXCEPT !.tokens = clear_tokens(@)]
    IN  IF x.raised = None
        THEN Return(x.st, TRUE, "Successfully refreshed authentication", None)
        ELSE IF IsRequestException(x.raised)
             THEN Return(cleared, FALSE, "Failed to refresh token", x.raised)
             ELSE Return(cleared, FALSE, "Unexpected error during authentication",
                         x.raised)

\* lines 144-152: the refresh of an expired stored bundle, with its own except
RefreshStored(st, resp, t) ==
    LET x == authenticate_with_refresh_token(st, st.refresh_token, resp, t)
    IN  IF x.raised = None
        THEN Return(x.st, TRUE, "Successfully refreshed authentication", None)
        ELSE IF IsRequestException(x.raised)
             THEN Return(x.st, FALSE, "Failed to refresh token", x.raised)
             ELSE Return(x.st, FALSE, "Unexpected error during authentication", x.raised)

\* (mutant) the supplied credentials tried in the order refresh token,
\* long-life token, invite code
Supplied_RefreshFirst(st, long, refresh, invite, resp, t) ==
    IF Truthy(refresh)
    THEN Outcome(authenticate_with_refresh_token(st, refresh, resp, t),
                 "Authenticated with refresh token")
    ELSE IF Truthy(long)
    THEN LET st1 == [st EXCEPT !.access_token = long]
         IN  Return([st1 EXCEPT !.tokens =
                        store_tokens(st1.access_token, None, "long_life", <<>>, t)],
                    TRUE, "Authenticated with long-life token", None)
    ELSE IF Truthy(invite)
    THEN Outcome(authenticate_with_invite_code(st, invite, resp, t),
                 "Authenticated with invite code")
    ELSE Return(st, FALSE, "No authentication credentials provided", None)

\* lines 159-178: the supplied credentials, the environment behind the caller's
Supplied(st, long, refresh, invite, resp, t) ==
    IF Truthy(long)
    THEN LET st1 == [st EXCEPT !.access_token = long]
         IN  Return([st1 EXCEPT !.tokens =
                        store_tokens(st1.access_token, None, "long_life", <<>>, t)],
                    TRUE, "Authenticated with long-life token", None)
    ELSE IF Truthy(refresh)
    THEN Outcome(authenticate_with_refresh_token(st, refresh, resp, t),
                 "Authenticated with refresh token")
    ELSE IF Truthy(invite)
    THEN Outcome(authenticate_with_invite_code(st, invite, resp, t),
                 "Authenticated with invite code")
    ELSE Return(st, FALSE, "No authentication credentials provided", None)

\* (mutant) authenticate that tries the supplied credentials before the stored
\* bundle
authenticate_SuppliedFirst(st, long, refresh, invite, resp, t1, t2, t3) ==
    IF Truthy(long) \/ Truthy(refresh) \/ Truthy(invite)
    THEN Supplied(st, long, refresh, invite, resp, t3)
    ELSE LET stored == get_tokens(st.tokens, t1)
         IN  IF DictTruthy(stored)
             THEN LET st1 == [st EXCEPT !.access_token = stored.access_token,
                                        !.refresh_token = stored.refresh_token]
                  IN  IF HasExpiry(stored) /\ t2 >= ExpiresAt(stored)
                                           /\ Truthy(st1.refresh_token)
                      THEN RefreshStored(st1, resp, t3)
                      ELSE Return(st1, TRUE, "Using stored authentication", None)
             ELSE Return(st, FALSE, "No authentication credentials provided", None)

\* authenticate(long_life_token, refresh_token, invite_code).  The clock reads
\* t1 in get_tokens (line 112), t2 at the second expiry test (line 147) and t3
\* when an exchange computes the expiry or store_tokens stamps last_updated.
authenticate(st, long, refresh, invite, resp, t1, t2, t3) ==
    LET stored == get_tokens(st.tokens, t1)
    IN  IF DictTruthy(stored)
        THEN LET st1 == [st EXCEPT !.access_token = stored.access_token,
                                   !.refresh_token = stored.refresh_token]
             IN  IF HasExpiry(stored)
                 THEN IF t2 >= ExpiresAt(stored) /\ Truthy(st1.refresh_token)
                      THEN RefreshStored(st1, resp, t3)
                      ELSE IF Truthy(st1.access_token)
                           THEN Return(st1, TRUE, "Using stored authentication", None)
                           ELSE Supplied(st1, long, refresh, invite, resp, t3)
                 ELSE Return(st1, TRUE, "Using stored authentication", None)
        ELSE Supplied(st, long, refresh, invite, resp, t3)

---------------------------------------------------------------------------
(* Booking queries.  A date is a day number; strftime('%Y-%m-%d') is          *)
(* one-to-one and order preserving on dates, so a date parameter is the day  *)
(* it denotes.  An absent (None) parameter is <<>>, a present one <<day>>.   *)

\* timedelta(days=30)
WindowDays == 30

\* the answer of session.get(url, headers, params): a transport failure, or a
\* status code with the 'data' of its JSON body
NoAnswer == [error |-> None, status |-> 0, data |-> <<>>]

\* get_bookings(date_filter, arrival_from, arrival_to, departure_from,
\* departure_to) of a client whose access token is token: ([records], message);
\* sent tells whether a request went out
get_bookings(token, params, answer) ==
    IF ~Truthy(token)
    THEN [data |-> <<>>, sent |-> FALSE,
          message |-> "No access token available. Please authenticate first."]
    ELSE IF answer.error # None
    THEN [data |-> <<>>, sent |-> TRUE, message |-> "Error"]
    ELSE IF answer.status = 401
    THEN [data |-> <<>>, sent |-> TRUE,
          message |-> "Authentication failed. Please check your credentials."]
    ELSE IF answer.status = 403
    THEN [data |-> <<>>, sent |-> TRUE,
          message |-> "Access forbidden. Please check your API permissions."]
    ELSE IF answer.status = 404
    THEN [data |-> <<>>, sent |-> TRUE,
          message |-> "API endpoint not found. Please check the API URL."]
    ELSE IF answer.status = 429
    THEN [data |-> <<>>, sent |-> TRUE,
          message |-> "Rate limit exceeded. Please try again later."]
    ELSE IF answer.status >= 400
    THEN [data |-> <<>>, sent |-> TRUE, message |-> "Error"]
    ELSE [data |-> answer.data, sent |-> TRUE, message |-> "Success"]

\* (mutant) the de-duplication that keeps the last record of an identifier
RECURSIVE DedupKeepLast(_, _)
DedupKeepLast(bookings, booking_ids) ==
    IF bookings = <<>> THEN <<>>
    ELSE LET n == Len(bookings)
             last == bookings[n]
             init == SubSeq(bookings, 1, n - 1)
         IN  IF last.id \in booking_ids
             THEN DedupKeepLast(init, booking_ids)
             ELSE Append(DedupKeepLast(init, booking_ids \cup {last.id}), last)

\* lines 739-747: the loop over arrivals + departures + stay_through, with the
\* set booking_ids of the identifiers already seen
RECURSIVE Dedup(_, _)
Dedup(bookings, booking_ids) ==
    IF bookings = <<>> THEN <<>>
    ELSE LET booking == Head(bookings)
         IN  IF booking.id \notin booking_ids
             THEN <<booking>> \o Dedup(Tail(bookings), booking_ids \cup {booking.id})
             ELSE Dedup(Tail(bookings), booking_ids)

\* the parameters of the three queries for target_date
ArrivalsQuery(target_date) ==
    [filter |-> "arrivals", arrivalFrom |-> <<target_date>>,
     arrivalTo |-> <<target_date>>, departureFrom |-> <<>>, departureTo |-> <<>>]

DeparturesQuery(target_date) ==
    [filter |-> "departures", arrivalFrom |-> <<>>, arrivalTo |-> <<>>,
     departureFrom |-> <<target_date>>, departureTo |-> <<target_date>>]

\* (mutant) a stay-through query that looks back no further than the target
\* date (arrival_from = target_date instead of start_date)
StayThroughQuery_NoLookback(target_date) ==
    [filter |-> None, arrivalFrom |-> <<target_date>>,
     arrivalTo |-> <<target_date>>, departureFrom |-> <<target_date>>,
     departureTo |-> <<target_date + WindowDays>>]

StayThroughQuery(target_date) ==
    [filter |-> None, arrivalFrom |-> <<target_date - WindowDays>>,
     arrivalTo |-> <<target_date>>, departureFrom |-> <<target_date>>,
     departureTo |-> <<target_date + WindowDays>>]

\* (mutant) fetch_all_relevant_bookings that gives up, with an empty result,
\* when one of the three queries does not succeed
fetch_all_relevant_bookings_Abort(token, target_date, answers) ==
    LET arrivals == get_bookings(token, ArrivalsQuery(target_date), answers[1])
        departures == get_bookings(token, DeparturesQuery(target_date), answers[2])
        stay_through == get_bookings(token, StayThroughQuery(target_date), answers[3])
        failed == \E r \in {arrivals, departures, stay_through} : r.message # "Success"
    IN  [token |-> token, target |-> target_date,
         queries |-> <<ArrivalsQuery(target_date), DeparturesQuery(target_date),
                       StayThroughQuery(target_date)>>,
         results |-> <<arrivals, departures, stay_through>>,
         combined |-> IF failed THEN <<>>
                      ELSE Dedup(arrivals.data \o departures.data \o stay_through.data,
                                 {})]

\* fetch_all_relevant_bookings(client, target_date); answers[i] is the server's
\* answer to the i-th query.  queries is the log of the get_bookings calls.
fetch_all_relevant_bookings(token, target_date, answers) ==
    LET arrivals == get_bookings(token, ArrivalsQuery(target_date), answers[1])
        departures == get_bookings(token, DeparturesQuery(target_date), answers[2])
        stay_through == get_bookings(token, StayThroughQuery(target_date), answers[3])
    IN  [token |-> token, target |-> target_date,
         queries |-> <<ArrivalsQuery(target_date), DeparturesQuery(target_date),
                       StayThroughQuery(target_date)>>,
         results |-> <<arrivals, departures, stay_through>>,
         combined |-> Dedup(arrivals.data \o departures.data \o stay_through.data, {})]

---------------------------------------------------------------------------
(* Categorizer.  A reservation is                                            *)
(*   [room_name, status, checkin_date, checkout_date]                        *)
(* with the dates as day numbers and room_name, a Python str, as the         *)
(* sequence of its characters' code points.                                 *)

\* the number a string of decimal digits denotes
RECURSIVE DigitsValue(_)
DigitsValue(a) ==
    IF a = <<>> THEN 0
    ELSE 10 * DigitsValue(SubSeq(a, 1, Len(a) - 1)) + (a[Len(a)] - 48)

\* (mutant) a comparison of the room labels by the numbers they denote
StrLess_Numeric(a, b) == DigitsValue(a) < DigitsValue(b)

\* a < b for two str: the comparison sorted() makes on the keys
RECURSIVE StrLess(_, _)
StrLess(a, b) ==
    IF a = <<>> THEN b # <<>>
    ELSE IF b = <<>> THEN FALSE
    ELSE IF a[1] # b[1] THEN a[1] < b[1]
    ELSE StrLess(Tail(a), Tail(b))

\* sorted(rs, key=lambda r: r.room_name): ascending and stable
RECURSIVE SortedByRoomName(_)
SortedByRoomName(rs) ==
    IF rs = <<>> THEN <<>>
    ELSE LET n == Len(rs)
             x == rs[n]
             done == SortedByRoomName(SubSeq(rs, 1, n - 1))
             k == Cardinality({i \in 1..Len(done) :
                                  ~StrLess(x.room_name, done[i].room_name)})
         IN  SubSeq(done, 1, k) \o <<x>> \o SubSeq(done, k + 1, Len(done))

\* (mutant) categorize_reservations whose stay-through test is
\* checkin_date <= target_date <= checkout_date
categorize_reservations_InclusiveStay(reservations, target_date) ==
    LET kept == SelectSeq(reservations, LAMBDA r : r.status # "black")
    IN  [reservations |-> reservations, target |-> target_date,
         arrivals |-> SortedByRoomName(
             SelectSeq(kept, LAMBDA r : r.checkin_date = target_date)),
         departures |-> SortedByRoomName(
             SelectSeq(kept, LAMBDA r : r.checkout_date = target_date)),
         stay_through |-> SortedByRoomName(
             SelectSeq(kept, LAMBDA r : r.checkin_date <= target_date
                                        /\ target_date <= r.checkout_date))]

\* categorize_reservations(reservations, target_date): the loop that skips
\* status "black" and appends to the three lists, then the three sorts
categorize_reservations(reservations, target_date) ==
    LET kept == SelectSeq(reservations, LAMBDA r : r.status # "black")
    IN  [reservations |-> reservations, target |-> target_date,
         arrivals |-> SortedByRoomName(
             SelectSeq(kept, LAMBDA r : r.checkin_date = target_date)),
         departures |-> SortedByRoomName(
             SelectSeq(kept, LAMBDA r : r.checkout_date = target_date)),
         stay_through |-> SortedByRoomName(
             SelectSeq(kept, LAMBDA r : r.checkin_date < target_date
                                        /\ target_date < r.checkout_date))]

---------------------------------------------------------------------------
(* parse_booking_data                                                        *)
(*                                                                           *)
(* A raw booking is the record                                               *)
(*   [id, roomId, unitId, arrival, departure, status]                        *)
(* with arrival and departure the text of the field: <<d>> is the text       *)
(* 'YYYY-MM-DD' of day d, <<>> a missing field (booking.get gives '').  The  *)
(* fields that only pass through (names, guest counts, notes) are left out.  *)

\* str(n) for an int n >= 0, as code points
RECURSIVE IntStr(_)
IntStr(n) ==
    IF n < 10 THEN <<48 + n>> ELSE IntStr(n \div 10) \o <<48 + (n % 10)>>

\* room_lookup: (roomId, unitId, the number its label spells)
room_lookup ==
    {
     <<564321, 1, 101>>, <<564321, 2, 201>>, <<564321, 3, 301>>,
     <<564321, 4, 302>>, <<564327, 1, 102>>, <<564327, 2, 202>>,
     <<564325, 1, 103>>, <<564325, 2, 203>>, <<564328, 1, 104>>,
     <<564328, 2, 204>>, <<564326, 1, 105>>, <<564326, 2, 106>>,
     <<564326, 3, 205>>, <<564326, 4, 206>>, <<564322, 1, 404>>,
     <<564322, 2, 504>>, <<564322, 3, 604>>, <<564323, 1, 401>>,
     <<564323, 2, 402>>, <<564323, 3, 403>>, <<564323, 4, 501>>,
     <<564323, 5, 502>>, <<564323, 6, 503>>, <<564323, 7, 601>>,
     <<564323, 8, 602>>, <<564323, 9, 603>>, <<564324, 1, 405>>,
     <<564324, 2, 505>>, <<564324, 3, 605>>, <<570543, 1, 701>>,
     <<570545, 1, 702>>, <<570542, 1, 703>>, <<570544, 1, 704>>,
     <<570546, 1, 705>>
    }

\* room_lookup.get((room_id, unit_id), f"Room {room_id}-{unit_id}")
RoomName(room_id, unit_id) ==
    IF \E e \in room_lookup : e[1] = room_id /\ e[2] = unit_id
    THEN IntStr((CHOOSE e \in room_lookup : e[1] = room_id /\ e[2] = unit_id)[3])
    ELSE <<82, 111, 111, 109, 32>> \o IntStr(room_id) \o <<45>> \o IntStr(unit_id)

\* datetime.strptime(text, '%Y-%m-%d') raises ValueError unless the text is a date
Parseable(text) == Len(text) = 1

\* datetime.strptime(text, '%Y-%m-%d') of a text that is a date: the day
strptime(text) == text[1]

\* parse_booking_data(booking): the Reservation, with nights the difference
\* of the two parsed dates whatever its sign, or the ValueError of strptime
parse_booking_data(booking) ==
    LET arrival == strptime(booking.arrival)
        departure == strptime(booking.departure)
    IN  IF ~Parseable(booking.departure) \/ ~Parseable(booking.arrival)
        THEN [raised |-> "ValueError", reservation |-> None]
        ELSE [raised |-> None,
              reservation |->
                 [booking_id |-> booking.id,
                  room_name |-> RoomName(booking.roomId, booking.unitId),
                  status |-> booking.status,
                  checkin_date |-> arrival,
                  checkout_date |-> departure,
                  nights |-> departure - arrival]]

\* [parse_booking_data(booking) for booking in bookings]: the list, or the
\* exception of the first record that cannot be parsed
ParseAll(bookings) ==
    LET parsed == [i \in 1..Len(bookings) |-> parse_booking_data(bookings[i])]
    IN  IF \E i \in 1..Len(bookings) : parsed[i].raised # None
        THEN [raised |-> "ValueError", reservations |-> <<>>]
        ELSE [raised |-> None,
              reservations |-> [i \in 1..Len(bookings) |-> parsed[i].reservation]]

---------------------------------------------------------------------------
(* The authentication state machine *)

\* what the caller passes (the sidebar's text inputs, "" when left empty) and
\* what os.getenv gives for the three credentials
CallerLong == {None, "", "L1"}
EnvLong == {None, "L1"}
CallerRefresh == {None, "", "r1"}
EnvRefresh == {None, "r1"}
CallerInvite == {None, "", "i1"}
EnvInvite == {None, "i1"}

\* the record of an operation other than authenticate; got is the dictionary
\* a get_tokens operation returned
NoRet(op) ==
    [op |-> op, ok |-> FALSE, msg |-> None, cause |-> None, calls |-> <<>>,
     long |-> None, refresh |-> None, invite |-> None,
     resp |-> NoResponse, t2 |-> 0, got |-> NoneDict]

\* no fetch has run
NoFetch == [token |-> None, target |-> 0, queries |-> <<>>, results |-> <<>>,
            combined |-> <<>>]

\* no categorization has run
NoCat == [reservations |-> <<>>, target |-> 0,
          arrivals |-> <<>>, departures |-> <<>>, stay_through |-> <<>>]

\* no report has been generated: nothing parsed, nothing shown, nothing offered
NoRun == [op |-> "none", server |-> <<>>, raw |-> <<>>, reservations |-> <<>>,
          raised |-> None, auth_success |-> FALSE, messages |-> <<>>,
          downloads |-> <<>>]

\* Beds24APIClient() in a process that has no tokens.json yet
Init ==
    /\ tokens = EmptyDict
    /\ access_token = None
    /\ refresh_token = None
    /\ now = 0
    /\ ret = NoRet("init")
    /\ fetched = NoFetch
    /\ cat = NoCat
    /\ run = NoRun

\* time passes between two operations
Tick ==
    /\ now < MaxTime
    /\ now' = now + 1
    /\ ret' = NoRet("tick")
    /\ UNCHANGED <<tokens, access_token, refresh_token, fetched, cat, run>>

\* Beds24APIClient(): a new client, whose TokenStorage loads the token file
NewClient ==
    /\ access_token' = None
    /\ refresh_token' = None
    /\ ret' = NoRet("new_client")
    /\ UNCHANGED <<tokens, now, fetched, cat, run>>

\* client.token_storage.clear_tokens()
ClearTokens ==
    /\ tokens' = clear_tokens(tokens)
    /\ ret' = NoRet("clear_tokens")
    /\ UNCHANGED <<access_token, refresh_token, now, fetched, cat, run>>

\* client.token_storage.get_tokens(): got is what it returned
GetTokens ==
    /\ ret' = [NoRet("get_tokens") EXCEPT !.got = get_tokens(tokens, now)]
    /\ UNCHANGED <<tokens, access_token, refresh_token, now, fetched, cat, run>>

\* client.authenticate(long_life_token, refresh_token, invite_code): the
\* credentials after lines 160-162, the server's answer (there is one exactly
\* when a request was sent) and the clock's advance d1 between lines 112 and
\* 147 and d2 between line 147 and the exchange's datetime.now()
Authenticate ==
    \E long \in {PyOr(c, e) : c \in CallerLong, e \in EnvLong},
       refresh \in {PyOr(c, e) : c \in CallerRefresh, e \in EnvRefresh},
       invite \in {PyOr(c, e) : c \in CallerInvite, e \in EnvInvite},
       resp \in NormalResponses \cup {NoResponse},
       d1 \in 0..MaxDelay, d2 \in 0..MaxDelay :
        LET t1 == now
            t2 == now + d1
            t3 == now + d1 + d2
        IN  /\ d1 + d2 <= MaxDelay
            /\ t3 <= MaxTime
            /\ \E r \in {authenticate([tokens |-> tokens, access_token |-> access_token,
                                       refresh_token |-> refresh_token, calls |-> <<>>],
                                      long, refresh, invite, resp, t1, t2, t3)} :
                /\ (resp = NoResponse) <=> (r.st.calls = <<>>)
                /\ tokens' = r.st.tokens
                /\ access_token' = r.st.access_token
                /\ refresh_token' = r.st.refresh_token
                /\ now' = t3
                /\ ret' = [op |-> "authenticate", ok |-> r.ok, msg |-> r.msg,
                           cause |-> r.cause, calls |-> r.st.calls,
                           long |-> long, refresh |-> refresh, invite |-> invite,
                           resp |-> resp, t2 |-> t2, got |-> NoneDict]
            /\ UNCHANGED <<fetched, cat, run>>

Next ==
    \/ Tick
    \/ NewClient
    \/ ClearTokens
    \/ GetTokens
    \/ Authenticate

Spec == Init /\ [][Next]_vars

---------------------------------------------------------------------------
(* One fetch_all_relevant_bookings, for every answer of the server *)

\* raw booking records: two identifiers, each in several versions
FetchBookings ==
    [id : {"123", "456"}, arrival : {31}, departure : {32},
     status : {"confirmed", "black"}]

TargetDates == {31, 32}

\* what the server can answer to one query: a transport failure (status 0),
\* or a status code; only a 200 carries records
AnswerStatuses == {0, 200, 401, 403, 404, 429, 500}

Answer(status, data) ==
    IF status = 0 THEN [error |-> "ConnectionError", status |-> 0, data |-> <<>>]
    ELSE [error |-> None, status |-> status, data |-> data]

RecordsUpTo(status, n) ==
    UNION {[1..k -> FetchBookings] : k \in 0..(IF status = 200 THEN n ELSE 0)}

\* a client, authenticated or not
InitFetch ==
    /\ tokens = EmptyDict
    /\ access_token \in {None, "", "a1"}
    /\ refresh_token = None
    /\ now = 0
    /\ ret = NoRet("init")
    /\ fetched = NoFetch
    /\ cat = NoCat
    /\ run = NoRun

\* fetch_all_relevant_bookings(client, target_date).  A client without access
\* token sends nothing and gets no answer.
FetchAll ==
    /\ fetched = NoFetch
    /\ \E target_date \in TargetDates, s1 \in AnswerStatuses, s2 \in AnswerStatuses,
          s3 \in AnswerStatuses :
        \E d1 \in RecordsUpTo(s1, MaxRecords) :
        \E d2 \in RecordsUpTo(s2, MaxRecords - Len(d1)) :
        \E d3 \in RecordsUpTo(s3, MaxRecords - Len(d1) - Len(d2)) :
            LET answers == <<Answer(s1, d1), Answer(s2, d2), Answer(s3, d3)>>
            IN  /\ ~Truthy(access_token) => answers = <<NoAnswer, NoAnswer, NoAnswer>>
                /\ fetched' = [fetch_all_relevant_bookings(access_token, target_date,
                                 IF Truthy(access_token) THEN answers
                                 ELSE <<NoAnswer, NoAnswer, NoAnswer>>)
                               EXCEPT !.token = access_token]
    /\ UNCHANGED <<tokens, access_token, refresh_token, now, ret, cat, run>>

NextFetch == FetchAll

SpecFetch == InitFetch /\ [][NextFetch]_vars

---------------------------------------------------------------------------
(* One categorize_reservations, for every list of reservations *)

\* three days are enough for every order of check-in, target and check-out
CatDates == {1, 2, 3}

\* the labels "101", "102" and "2"
RoomNames == {<<49, 48, 49>>, <<49, 48, 50>>, <<50>>}

Reservations ==
    [room_name : RoomNames, status : {"confirmed", "black"},
     checkin_date : CatDates, checkout_date : CatDates]

InitCat ==
    /\ tokens = EmptyDict
    /\ access_token = None
    /\ refresh_token = None
    /\ now = 0
    /\ ret = NoRet("init")
    /\ fetched = NoFetch
    /\ cat = NoCat
    /\ run = NoRun

\* categorize_reservations(reservations, target_date)
Categorize ==
    /\ cat = NoCat
    /\ \E n \in 0..MaxReservations, target_date \in CatDates :
        \E reservations \in [1..n -> Reservations] :
            cat' = categorize_reservations(reservations, target_date)
    /\ UNCHANGED <<tokens, access_token, refresh_token, now, ret, fetched, run>>

NextCat == Categorize

SpecCat == InitCat /\ [][NextCat]_vars

---------------------------------------------------------------------------
(* The report page: main() when "Generate Booking Report" is pressed.        *)
(* What the page shows is the sequence of st.error / st.info / st.success    *)
(* calls, each [kind, text]; what it offers is the sequence of the labels of *)
(* its st.download_button calls.                                             *)

\* a report builder (create_pdf_report, create_cleaning_report): the whole
\* body is inside try, so whatever is raised while the document is built
\* (fault) becomes st.error and the return value None, <<>>; otherwise the
\* buffer <<document>>, with the three lists the document prints
BuildReport(title, reservations, target_date, fault) ==
    IF fault # None
    THEN [buffer |-> <<>>,
          shown |-> <<[kind |-> "error", text |-> "Error creating PDF"]>>]
    ELSE [buffer |-> <<[title |-> title,
                        lists |-> categorize_reservations(reservations, target_date)]>>,
          shown |-> <<>>]

create_pdf_report(reservations, target_date, fault) ==
    BuildReport("Welschen Report", reservations, target_date, fault)

create_cleaning_report(reservations, target_date, fault) ==
    BuildReport("Welschen Cleaning Report", reservations, target_date, fault)

\* the outcome of a run that ends before any booking is fetched
Aborted(auth, messages) ==
    [st |-> auth.st, auth |-> auth, fetched |-> NoFetch, cat |-> NoCat,
     run |-> [NoRun EXCEPT !.op = "main", !.auth_success = auth.ok,
                           !.messages = messages]]

\* main() after a successful authenticate (lines 812-859): fetch, parse, the
\* reception report and its download button, then the housekeeping report and
\* its button, then the summary
Report(st, auth, target_date, answers, pdf_fault, cleaning_fault) ==
    LET f == [fetch_all_relevant_bookings(st.access_token, target_date, answers)
              EXCEPT !.token = st.access_token]
        bookings == f.combined
        said == <<[kind |-> "success", text |-> auth.msg]>>
        parsed == ParseAll(bookings)
        pdf == create_pdf_report(parsed.reservations, target_date, pdf_fault)
        cleaning == create_cleaning_report(parsed.reservations, target_date,
                                           cleaning_fault)
        run0 == [NoRun EXCEPT !.op = "main", !.auth_success = TRUE, !.raw = bookings]
    IN  IF bookings = <<>>
        THEN [st |-> st, auth |-> auth, fetched |-> f, cat |-> NoCat,
              run |-> [run0 EXCEPT !.messages = said \o
                          <<[kind |-> "error", text |-> "No bookings found"]>>]]
        ELSE IF parsed.raised # None
        THEN [st |-> st, auth |-> auth, fetched |-> f, cat |-> NoCat,
              run |-> [run0 EXCEPT !.raised = parsed.raised,
                          !.messages = said \o
                             <<[kind |-> "success", text |-> "Found bookings"]>>]]
        ELSE [st |-> st, auth |-> auth, fetched |-> f,
              cat |-> categorize_reservations(parsed.reservations, target_date),
              run |-> [run0 EXCEPT
                  !.reservations = parsed.reservations,
                  !.messages = said
                      \o <<[kind |-> "success", text |-> "Found bookings"]>>
                      \o pdf.shown
                      \o (IF pdf.buffer # <<>> THEN cleaning.shown ELSE <<>>),
                  !.downloads =
                      IF pdf.buffer = <<>> THEN <<>>
                      ELSE <<"Download Reception Report">>
                           \o (IF cleaning.buffer = <<>> THEN <<>>
                               ELSE <<"Download Housekeeping Report">>)]]

\* (mutant) main that goes on to the report although authenticate failed
main_IgnoreAuthFailure(tokens0, password_ok, long, refresh, invite, resp, t, target_date, answers, pdf_fault, cleaning_fault) ==
    LET st0 == [tokens |-> tokens0, access_token |-> None, refresh_token |-> None,
                calls |-> <<>>]
        auth == authenticate(st0, long, refresh, invite, resp, t, t, t)
    IN  IF ~password_ok
        THEN Aborted(Return(st0, FALSE, None, None),
                     <<[kind |-> "error", text |-> "Incorrect password"]>>)
        ELSE Report(auth.st, auth, target_date, answers, pdf_fault, cleaning_fault)

\* main(): the password check, Beds24APIClient(), authenticate with the
\* return after a failure (lines 807-810), then the report
main(tokens0, password_ok, long, refresh, invite, resp, t, target_date, answers, pdf_fault, cleaning_fault) ==
    LET st0 == [tokens |-> tokens0, access_token |-> None, refresh_token |-> None,
                calls |-> <<>>]
        auth == authenticate(st0, long, refresh, invite, resp, t, t, t)
    IN  IF ~password_ok
        THEN Aborted(Return(st0, FALSE, None, None),
                     <<[kind |-> "error", text |-> "Incorrect password"]>>)
        ELSE IF ~auth.ok
        THEN Aborted(auth,
                     <<[kind |-> "error", text |-> auth.msg],
                       [kind |-> "info",
                        text |-> "Make sure you have set up your credentials correctly."]>>)
        ELSE Report(auth.st, auth, target_date, answers, pdf_fault, cleaning_fault)

\* the records the server can return to the page: two identifiers, a parseable
\* or a missing arrival date
MainBookings ==
    [id : {"123", "456"}, roomId : {564321}, unitId : {1},
     arrival : {<<31>>, <<>>}, departure : {<<32>>}, status : {"confirmed"}]

\* a 200 with records, or a server error
MainStatuses == {200, 500}

MainRecordsUpTo(status, n) ==
    UNION {[1..k -> MainBookings] : k \in 0..(IF status = 200 THEN n ELSE 0)}

\* the answers of the token endpoints the page is run against: a failure, or a
\* 2xx body with or without 'token', whose 'expiresIn' is missing or null
MainResponses ==
    {r \in NormalResponses \cup {NoResponse} :
        r.refreshToken = None /\ r.token \in {None, "a1"} /\ r.expiresIn.kind # "num"}

\* what raises while a document is built
Faults == {None, "Exception"}

\* the page is opened in a process that has no tokens.json yet
InitMain ==
    /\ tokens = EmptyDict
    /\ access_token = None
    /\ refresh_token = None
    /\ now = 0
    /\ ret = NoRet("init")
    /\ fetched = NoFetch
    /\ cat = NoCat
    /\ run = NoRun

\* one press of "Generate Booking Report".  Inputs a run does not read are
\* fixed: the clock and the server are not consulted after a wrong password,
\* no answer to a query is drawn for a client that sends none.
GenerateReport ==
    /\ run = NoRun
    /\ \E password_ok \in BOOLEAN,
          long \in {PyOr(c, e) : c \in {None, ""}, e \in EnvLong},
          refresh \in {PyOr(c, e) : c \in {None, ""}, e \in EnvRefresh},
          invite \in {PyOr(c, e) : c \in {None, ""}, e \in EnvInvite},
          resp \in MainResponses,
          target_date \in TargetDates,
          s1 \in MainStatuses, s2 \in MainStatuses, s3 \in MainStatuses,
          pdf_fault \in Faults, cleaning_fault \in Faults :
        \E d1 \in MainRecordsUpTo(s1, MaxMainRecords) :
        \E d2 \in MainRecordsUpTo(s2, MaxMainRecords - Len(d1)) :
        \E d3 \in MainRecordsUpTo(s3, MaxMainRecords - Len(d1) - Len(d2)) :
        \E r \in {main(tokens, password_ok, long, refresh, invite, resp, now,
                       target_date,
                       <<Answer(s1, d1), Answer(s2, d2), Answer(s3, d3)>>,
                       pdf_fault, cleaning_fault)} :
            /\ (resp = NoResponse) <=> (r.st.calls = <<>>)
            /\ tokens' = r.st.tokens
            /\ access_token' = r.st.access_token
            /\ refresh_token' = r.st.refresh_token
            /\ ret' = [NoRet("authenticate") EXCEPT
                          !.ok = r.auth.ok, !.msg = r.auth.msg, !.cause = r.auth.cause,
                          !.calls = r.st.calls, !.long = long, !.refresh = refresh,
                          !.invite = invite, !.resp = resp, !.t2 = now]
            /\ fetched' = r.fetched
            /\ cat' = r.cat
            /\ run' = r.run
    /\ UNCHANGED now

NextMain == GenerateReport

SpecMain == InitMain /\ [][NextMain]_vars

---------------------------------------------------------------------------
(* One parse_booking_data, for every raw booking *)

\* three days are enough for every order of arrival and departure
ParseDates == {17, 18, 19}

\* raw bookings: a room of the table, a room that is not in it, a record
\* without roomId (booking.get gives 0); dates present or missing
RawBookings ==
    [id : {"123", "456"}, roomId : {564321, 999999, 0}, unitId : {1, 5},
     arrival : {<<>>} \cup {<<d>> : d \in ParseDates},
     departure : {<<>>} \cup {<<d>> : d \in ParseDates},
     status : {"confirmed", "black"}]

InitParse ==
    /\ tokens = EmptyDict
    /\ access_token = None
    /\ refresh_token = None
    /\ now = 0
    /\ ret = NoRet("init")
    /\ fetched = NoFetch
    /\ cat = NoCat
    /\ run = NoRun

\* parse_booking_data(booking)
Parse ==
    /\ run = NoRun
    /\ \E booking \in RawBookings :
        \E r \in {parse_booking_data(booking)} :
            run' = [NoRun EXCEPT !.op = "parse", !.raw = <<booking>>,
                       !.raised = r.raised,
                       !.reservations = IF r.raised = None THEN <<r.reservation>>
                                        ELSE <<>>]
    /\ UNCHANGED <<tokens, access_token, refresh_token, now, ret, fetched, cat>>

NextParse == Parse

SpecParse == InitParse /\ [][NextParse]_vars

---------------------------------------------------------------------------
(* The pipeline fetch, parse, categorize against a server that holds a set   *)
(* of bookings and answers each query with exactly the bookings whose        *)
(* arrival and departure lie in the date ranges the query names.              *)

\* the identifiers of the server's bookings, one per booking
ServerIds == <<"123", "456", "789", "1011">>

\* arrival and departure days around the target date: on it, the day after,
\* and on both sides of the 30-day window
ServerDays(target_date) ==
    {target_date - WindowDays - 1, target_date - WindowDays,
     target_date - WindowDays + 1, target_date, target_date + 1,
     target_date + WindowDays + 1}

\* the server's days are relative to the target date, so one target date,
\* the later one, is enough
PipelineTargets == {t \in TargetDates : \A u \in TargetDates : u <= t}

\* the server's bookings: any arrival and departure, blocked or not
ServerBookings(target_date, n) ==
    {[i \in 1..n |-> [id |-> ServerIds[i], roomId |-> 564321, unitId |-> i,
                      arrival |-> <<v[i].arrival>>, departure |-> <<v[i].departure>>,
                      status |-> v[i].status]] :
        v \in [1..n -> [arrival : ServerDays(target_date),
                        departure : ServerDays(target_date),
                        status : {"confirmed", "black"}]]}

\* the date filter of GET /bookings: arrivalFrom <= arrival <= arrivalTo and
\* departureFrom <= departure <= departureTo, each bound only when it is sent
Matches(booking, params) ==
    /\ params.arrivalFrom # <<>> => params.arrivalFrom[1] <= booking.arrival[1]
    /\ params.arrivalTo # <<>> => booking.arrival[1] <= params.arrivalTo[1]
    /\ params.departureFrom # <<>> => params.departureFrom[1] <= booking.departure[1]
    /\ params.departureTo # <<>> => booking.departure[1] <= params.departureTo[1]

\* the 200 answer of the server to one query
ServerAnswer(db, params) ==
    Answer(200, SelectSeq(db, LAMBDA b : Matches(b, params)))

\* an authenticated client
InitPipeline ==
    /\ tokens = EmptyDict
    /\ access_token = "a1"
    /\ refresh_token = None
    /\ now = 0
    /\ ret = NoRet("init")
    /\ fetched = NoFetch
    /\ cat = NoCat
    /\ run = NoRun

\* fetch_all_relevant_bookings, parse_booking_data of every record, and
\* categorize_reservations (main, lines 816, 826 and 851); each query is
\* answered from the server's bookings
Pipeline ==
    /\ run = NoRun
    /\ \E target_date \in PipelineTargets, n \in 0..MaxServerBookings :
        \E db \in ServerBookings(target_date, n) :
            LET queries == <<ArrivalsQuery(target_date), DeparturesQuery(target_date),
                             StayThroughQuery(target_date)>>
                answers == [q \in 1..3 |-> ServerAnswer(db, queries[q])]
                f == fetch_all_relevant_bookings(access_token, target_date, answers)
                parsed == ParseAll(f.combined)
            IN  /\ fetched' = f
                /\ cat' = categorize_reservations(parsed.reservations, target_date)
                /\ run' = [NoRun EXCEPT !.op = "pipeline", !.server = db,
                              !.raw = f.combined, !.raised = parsed.raised,
                              !.reservations = parsed.reservations]
    /\ UNCHANGED <<tokens, access_token, refresh_token, now, ret>>

NextPipeline == Pipeline

SpecPipeline == InitPipeline /\ [][NextPipeline]_vars

---------------------------------------------------------------------------
(* Properties of the token store and of authenticate *)

Expired(toks, t) == HasExpiry(toks) /\ t >= ExpiresAt(toks)

\* C1: get_tokens returns the stored bundle when it has no expiry, when its
\* expiry is in the future, and when its expiry has passed and it holds a
\* refresh token; it returns None when the expiry has passed and there is no
\* refresh token, and when nothing is stored.
C1_GetTokens ==
    ret.op = "get_tokens" =>
        /\ tokens = EmptyDict => ret.got = NoneDict
        /\ (tokens # EmptyDict /\ tokens.expires_at = <<>>) => ret.got = tokens
        /\ (tokens # EmptyDict /\ tokens.expires_at # <<>>
                /\ now < tokens.expires_at[1]) => ret.got = tokens
        /\ (tokens # EmptyDict /\ tokens.expires_at # <<>>
                /\ now >= tokens.expires_at[1]
                /\ tokens.refresh_token \notin {None, ""}) => ret.got = tokens
        /\ (tokens # EmptyDict /\ tokens.expires_at # <<>>
                /\ now >= tokens.expires_at[1]
                /\ tokens.refresh_token \in {None, ""}) => ret.got = NoneDict

\* an expired bundle with a refresh token, returned for the caller to refresh
C1_Witness ==
    /\ ret.op = "get_tokens"
    /\ tokens # EmptyDict
    /\ tokens.expires_at # <<>>
    /\ now > tokens.expires_at[1]
    /\ tokens.refresh_token = "r3"
    /\ ret.got = tokens

\* the bundle authenticate finds in the store at its start (clock now)
Found == get_tokens(tokens, now)

\* a stored bundle is usable when get_tokens returns it and it either holds an
\* access token or is due (at the second expiry test, clock t2) for a refresh
\* with the refresh token it holds
UsableStored(t2) ==
    /\ Found # NoneDict
    /\ \/ Found.access_token \notin {None, ""}
       \/ /\ Found.expires_at # <<>>
          /\ t2 >= Found.expires_at[1]
          /\ Found.refresh_token \notin {None, ""}

SuppliedMessages ==
    {"Authenticated with long-life token", "Authenticated with refresh token",
     "Authenticated with invite code", "No authentication credentials provided",
     "Authentication failed"}

\* a step of authenticate that resolves the credentials in the fixed order
ResolvesInOrder ==
    LET r == ret'
        given(v) == v \notin {None, ""}
    IN  /\ UsableStored(r.t2) =>
            /\ r.msg \notin SuppliedMessages
            /\ \/ r.calls = <<>>
               \/ r.calls = <<[url |-> "authentication/token",
                               header |-> Found.refresh_token]>>
            /\ tokens' # EmptyDict /\ tokens'.token_type = tokens.token_type
        /\ (~UsableStored(r.t2) /\ given(r.long)) =>
            /\ r.ok /\ r.msg = "Authenticated with long-life token"
            /\ r.calls = <<>>
            /\ access_token' = r.long
            /\ tokens'.access_token = r.long /\ tokens'.token_type = "long_life"
        /\ (~UsableStored(r.t2) /\ ~given(r.long) /\ given(r.refresh)) =>
            /\ r.calls = <<[url |-> "authentication/token", header |-> r.refresh]>>
            /\ r.msg \in {"Authenticated with refresh token", "Authentication failed",
                          "Unexpected error during authentication"}
        /\ (~UsableStored(r.t2) /\ ~given(r.long) /\ ~given(r.refresh)
                /\ given(r.invite)) =>
            /\ r.calls = <<[url |-> "authentication/setup", header |-> r.invite]>>
            /\ r.msg \in {"Authenticated with invite code", "Authentication failed",
                          "Unexpected error during authentication"}
        /\ (~UsableStored(r.t2) /\ ~given(r.long) /\ ~given(r.refresh)
                /\ ~given(r.invite)) =>
            /\ ~r.ok /\ r.msg = "No authentication credentials provided"
            /\ r.calls = <<>>
            /\ tokens' = tokens

\* C2: authenticate resolves the credentials in a fixed order, first match
\* wins: a usable stored bundle before any supplied credential, then a
\* supplied long-life token, then a supplied refresh token, then an invite
\* code; with none of the four it fails with "no credentials", sends no
\* request and stores nothing.
C2_ResolutionOrder == [][ret'.op = "authenticate" => ResolvesInOrder]_vars

\* the stored bundle was reused although all three credentials were supplied
C2_Witness ==
    /\ ret.op = "authenticate"
    /\ ret.ok /\ ret.msg = "Using stored authentication"
    /\ ret.long = "L1" /\ ret.refresh = "r1" /\ ret.invite = "i1"
    /\ tokens # EmptyDict /\ tokens.token_type = "refresh"

\* C3: when authenticate finds a stored bundle whose expiry has passed and
\* which holds a refresh token, it sends the refresh-token exchange (with that
\* refresh token) before it returns, and if it returns success the client's
\* access token is the token that exchange issued.
C3_RefreshBeforeReturn ==
    [][(/\ ret'.op = "authenticate"
        /\ tokens # EmptyDict
        /\ tokens.expires_at # <<>>
        /\ now >= tokens.expires_at[1]
        /\ tokens.refresh_token \notin {None, ""})
       => /\ ret'.calls = <<[url |-> "authentication/token",
                             header |-> tokens.refresh_token]>>
          /\ ret'.ok => /\ ret'.resp.status = "ok"
                        /\ access_token' = ret'.resp.token
                        /\ tokens'.access_token = ret'.resp.token
                        /\ tokens'.last_updated = <<now'>>]_vars

\* a refresh of an expired stored bundle that replaced the access token: the
\* bundle in the store was issued now, the client holds its token
C3_Witness ==
    /\ ret.op = "authenticate"
    /\ ret.ok /\ ret.msg = "Successfully refreshed authentication"
    /\ ret.resp.token = "a2"
    /\ access_token = "a2"
    /\ tokens.access_token = "a2"

C5_KindAndExpiry ==
    tokens # EmptyDict =>
        /\ tokens.token_type \in {"long_life", "refresh"}
        /\ tokens.token_type = "long_life" => tokens.expires_at = <<>>
        /\ tokens.token_type = "refresh" => tokens.expires_at # <<>>

\* a refresh-kind bundle, stored by an exchange, with its expiry
C5_Witness ==
    /\ ret.op = "authenticate" /\ ret.ok /\ ret.calls # <<>>
    /\ tokens # EmptyDict
    /\ tokens.token_type = "refresh"
    /\ tokens.expires_at = <<now>>

\* C6 as stated: unless clear_tokens is called, the stored bundle never
\* becomes empty and its kind never changes (refresh to long-life or long-life
\* to refresh).
C6_KindNeverChanges ==
    [][(tokens # EmptyDict /\ ret'.op # "clear_tokens")
       => (tokens' # EmptyDict /\ tokens'.token_type = tokens.token_type)]_vars

\* C6 as amended: unless clear_tokens is called, the stored bundle never
\* becomes empty and a long-life bundle stays long-life; a refresh bundle is
\* replaced by a long-life one only by an authenticate call that is given a
\* long-life token and finds the stored bundle unusable (expired without a
\* refresh token, or without an access token and not due for a refresh with
\* a refresh token).
C6_KindChangesOnlyWhenUnusable ==
    [][(tokens # EmptyDict /\ ret'.op # "clear_tokens")
       => /\ tokens' # EmptyDict
          /\ tokens.token_type = "long_life" => tokens' = tokens
          /\ (tokens.token_type = "refresh" /\ tokens'.token_type # "refresh")
             => /\ ret'.op = "authenticate"
                /\ ret'.long \notin {None, ""}
                /\ ~UsableStored(ret'.t2)
                /\ \/ (Expired(tokens, now) /\ tokens.refresh_token \in {None, ""})
                   \/ /\ tokens.access_token \in {None, ""}
                      /\ \/ ~Expired(tokens, ret'.t2)
                         \/ tokens.refresh_token \in {None, ""}
                /\ tokens'.token_type = "long_life"]_vars

\* a long-life bundle that replaced a refresh bundle: the store is long-life
\* and was written by this call, although the clock is late enough for an
\* earlier exchange to have expired
C6_Witness ==
    /\ ret.op = "authenticate" /\ ret.ok
    /\ ret.msg = "Authenticated with long-life token"
    /\ tokens.token_type = "long_life"
    /\ refresh_token = "r3"
    /\ now > 0

\* C7: an exchange sends exactly one request; authenticate sends at most one,
\* and when that request fails in transport or with a non-2xx status
\* authenticate returns failure with a message that carries the cause.
C7_SingleCallNoRetry ==
    ret.op = "authenticate" =>
        /\ Len(ret.calls) <= 1
        /\ ret.msg \in {"Successfully refreshed authentication",
                        "Authenticated with refresh token",
                        "Authenticated with invite code",
                        "Failed to refresh token",
                        "Authentication failed"} => Len(ret.calls) = 1
        /\ (ret.calls # <<>> /\ ret.resp.status \in {"http_error", "transport_error"})
           => /\ ~ret.ok
              /\ ret.msg \in {"Failed to refresh token", "Authentication failed"}
              /\ ret.cause = (IF ret.resp.status = "http_error"
                              THEN "HTTPError" ELSE "ConnectionError")

\* the refresh of a stored bundle failed with a non-2xx status, after one request
C7_Witness ==
    /\ ret.op = "authenticate" /\ ~ret.ok
    /\ ret.msg = "Failed to refresh token"
    /\ ret.cause = "HTTPError"
    /\ Len(ret.calls) = 1

---------------------------------------------------------------------------
(* Properties of fetch_all_relevant_bookings *)

\* the i-th query of the last fetch did not succeed: no token, a transport
\* failure, or a status other than 200
QueryFailed(i) == fetched.results[i].message # "Success"

\* arrivals ++ departures ++ stay-through, as get_bookings returned them
Concatenation ==
    fetched.results[1].data \o fetched.results[2].data \o fetched.results[3].data

FirstIndex(id) ==
    CHOOSE i \in 1..Len(Concatenation) :
        /\ Concatenation[i].id = id
        /\ \A k \in 1..(i - 1) : Concatenation[k].id # id

\* C9: the combined result holds, for every identifier that occurs in
\* arrivals ++ departures ++ stay-through, exactly one record; that record is
\* the first occurrence in the concatenation, unchanged, and the records stand
\* in the order of their first occurrences.
C9_DedupFirstSeen ==
    fetched # NoFetch =>
        /\ \A i \in 1..Len(Concatenation) :
            Cardinality({j \in 1..Len(fetched.combined) :
                            fetched.combined[j].id = Concatenation[i].id}) = 1
        /\ \A j \in 1..Len(fetched.combined) :
            /\ \E i \in 1..Len(Concatenation) :
                Concatenation[i].id = fetched.combined[j].id
            /\ fetched.combined[j] = Concatenation[FirstIndex(fetched.combined[j].id)]
        /\ \A j, k \in 1..Len(fetched.combined) :
            j < k => FirstIndex(fetched.combined[j].id) < FirstIndex(fetched.combined[k].id)

\* identifier "123" came back from all three queries, in two versions, and the
\* result holds the version the arrivals query returned
C9_Witness ==
    /\ fetched # NoFetch
    /\ Len(Concatenation) = 3
    /\ \A i \in 1..3 : Len(fetched.results[i].data) = 1
    /\ \A i \in 1..3 : Concatenation[i].id = "123"
    /\ Concatenation[1].status = "confirmed"
    /\ Concatenation[2].status = "black"
    /\ fetched.combined = <<Concatenation[1]>>

---------------------------------------------------------------------------
(* Properties of categorize_reservations *)

InList(r, list) == \E i \in 1..Len(list) : list[i] = r

\* C10: each list is decided independently per reservation: R is in arrivals
\* iff R.status is not "black" and R.checkin = T, in departures iff not "black"
\* and R.checkout = T, in stay_through iff not "black" and
\* R.checkin < T < R.checkout; the lists hold nothing but given reservations.
\* So a "black" reservation is in no list, and one with checkin = checkout = T
\* is in arrivals and departures and not in stay_through.
C10_CategorizeRules ==
    cat # NoCat =>
        /\ \A i \in 1..Len(cat.reservations) :
            LET R == cat.reservations[i]
                T == cat.target
            IN  /\ InList(R, cat.arrivals)
                    <=> (R.status # "black" /\ R.checkin_date = T)
                /\ InList(R, cat.departures)
                    <=> (R.status # "black" /\ R.checkout_date = T)
                /\ InList(R, cat.stay_through)
                    <=> (R.status # "black" /\ R.checkin_date < T
                                            /\ T < R.checkout_date)
                /\ R.status = "black" =>
                    /\ ~InList(R, cat.arrivals)
                    /\ ~InList(R, cat.departures)
                    /\ ~InList(R, cat.stay_through)
                /\ (R.status # "black" /\ R.checkin_date = T /\ R.checkout_date = T) =>
                    /\ InList(R, cat.arrivals)
                    /\ InList(R, cat.departures)
                    /\ ~InList(R, cat.stay_through)
        /\ \A list \in {cat.arrivals, cat.departures, cat.stay_through} :
            \A j \in 1..Len(list) : InList(list[j], cat.reservations)

\* a zero-night reservation on the target date, in arrivals and departures
\* only, beside a "black" reservation of the same dates that is in no list
C10_Witness ==
    /\ cat # NoCat
    /\ Len(cat.reservations) = 2
    /\ cat.reservations[1].status = "confirmed"
    /\ cat.reservations[1].checkin_date = cat.target
    /\ cat.reservations[1].checkout_date = cat.target
    /\ cat.reservations[2] = [cat.reservations[1] EXCEPT !.status = "black"]
    /\ cat.arrivals = <<cat.reservations[1]>>
    /\ cat.departures = <<cat.reservations[1]>>
    /\ cat.stay_through = <<>>

\* a < b for two strings, lexicographically by code point: a is a proper
\* prefix of b, or the two differ first at a position where a is smaller
LexLess(a, b) ==
    \/ /\ Len(a) < Len(b)
       /\ \A i \in 1..Len(a) : a[i] = b[i]
    \/ \E i \in 1..Len(a) :
        /\ i <= Len(b)
        /\ \A k \in 1..(i - 1) : a[k] = b[k]
        /\ a[i] < b[i]

Occurrences(r, list) == Cardinality({i \in 1..Len(list) : list[i] = r})

\* how often r belongs in a list whose rule r satisfies (wanted) or not
Expected(r, wanted) == IF wanted THEN Occurrences(r, cat.reservations) ELSE 0

\* C11: each of the three lists is sorted ascending by room label under plain
\* string comparison (no label is followed by a lexicographically smaller
\* one, so "101" stands before "2"), and the sort neither adds nor drops a
\* reservation: each list holds every reservation its rule selects as often
\* as the input does, and nothing else.
C11_SortedByLabel ==
    cat # NoCat =>
        /\ \A list \in {cat.arrivals, cat.departures, cat.stay_through} :
            \A j, k \in 1..Len(list) :
                j < k => ~LexLess(list[k].room_name, list[j].room_name)
        /\ \A r \in Reservations :
            LET live == r.status # "black"
                T == cat.target
            IN  /\ Occurrences(r, cat.arrivals)
                     = Expected(r, live /\ r.checkin_date = T)
                /\ Occurrences(r, cat.departures)
                     = Expected(r, live /\ r.checkout_date = T)
                /\ Occurrences(r, cat.stay_through)
                     = Expected(r, live /\ r.checkin_date < T /\ T < r.checkout_date)

\* two arrivals given in the order "2", "101" come out as "101", "2"
C11_Witness ==
    /\ cat # NoCat
    /\ Len(cat.reservations) = 2
    /\ cat.reservations[1].room_name = <<50>>
    /\ cat.reservations[2].room_name = <<49, 48, 49>>
    /\ cat.arrivals = <<cat.reservations[2], cat.reservations[1]>>

---------------------------------------------------------------------------
(* Properties of the report page *)

\* C12 as stated: a report run never ends with only one of the two PDFs
\* offered: either the reception and the housekeeping report are both offered
\* for download, or neither is.  (The code offers the reception report before
\* it builds the housekeeping report, so this does not hold.)
C12_BothOrNeither ==
    run.op = "main" =>
        run.downloads \in {<<>>, <<"Download Reception Report",
                                   "Download Housekeeping Report">>}

\* C13: when authenticate returns failure, the run ends with an error message
\* that carries authenticate's message, and in that run no booking query is
\* issued, no record is parsed, nothing is categorized and no PDF is offered.
C13_AuthFailureAborts ==
    (run.op = "main" /\ ret.msg # None /\ ~ret.ok) =>
        /\ fetched = NoFetch
        /\ run.raw = <<>> /\ run.reservations = <<>> /\ run.raised = None
        /\ cat = NoCat
        /\ run.downloads = <<>>
        /\ ~run.auth_success
        /\ run.messages # <<>>
        /\ run.messages[1] = [kind |-> "error", text |-> ret.msg]

\* a run whose authenticate failed after it had set the client's access token
\* (a 2xx answer with a null expiresIn): a run that went on would query with it
C13_Witness ==
    /\ run.op = "main" /\ ret.msg = "Unexpected error during authentication"
    /\ ~ret.ok /\ Truthy(access_token)
    /\ run.messages[1].kind = "error"

---------------------------------------------------------------------------
(* Properties of parse_booking_data *)

\* C14 as stated: no Reservation that parse_booking_data returns has a
\* negative night count; the night count is the check-out date minus the
\* check-in date in days, and a raw record whose departure is before its
\* arrival is not returned as a Reservation.  (The code returns it, with a
\* negative count, so this does not hold.)
C14_NoNegativeNights ==
    (run.op = "parse" /\ run.raised = None) =>
        /\ run.reservations[1].nights
              = run.reservations[1].checkout_date - run.reservations[1].checkin_date
        /\ run.reservations[1].nights >= 0
        /\ strptime(run.raw[1].departure) >= strptime(run.raw[1].arrival)

---------------------------------------------------------------------------
(* Properties of authenticate: expiry and the token store *)

\* C15 as stated: authenticate never returns "Using stored authentication"
\* for a stored bundle whose expiry has passed, whether or not the bundle has
\* a refresh token and also when the clock advances between the expiry test of
\* get_tokens and the one of authenticate.  The expiry is compared with the
\* clock as authenticate last read it, ret.t2.  (A bundle without refresh
\* token that expires between the two tests is reused, so this does not hold.)
C15_NoExpiredReuse ==
    (ret.op = "authenticate" /\ ret.ok /\ ret.msg = "Using stored authentication")
        => ~Expired(tokens, ret.t2)

\* C16: whenever authenticate returns failure (no credential, a failed
\* exchange of a supplied credential, a failed refresh of the stored bundle,
\* an unexpected error), the token store is exactly what it was before the call.
C16_FailureLeavesStore ==
    [][(ret'.op = "authenticate" /\ ~ret'.ok) => tokens' = tokens]_vars

\* a failed refresh of a stored bundle: a request was sent, the call failed,
\* and the bundle is still in the store
C16_Witness ==
    /\ ret.op = "authenticate" /\ ~ret.ok
    /\ ret.msg = "Failed to refresh token"
    /\ ret.calls # <<>>
    /\ DictTruthy(tokens) /\ Truthy(tokens.refresh_token)

---------------------------------------------------------------------------
(* Properties of the pipeline *)

\* the reservation of booking id is in one of the three lists
Listed(id) ==
    \E list \in {cat.arrivals, cat.departures, cat.stay_through} :
        \E k \in DOMAIN list : list[k].booking_id = id

\* C17: when the three queries succeed and the server filters by the dates
\* exactly, every booking of the server that is not "black", has at most 30
\* nights and has checkin <= target <= checkout is in arrivals, departures or
\* stay_through; and every record that is not "black" and that one of the
\* three queries returned is in one of the three lists.
C17_PipelineComplete ==
    run.op = "pipeline" =>
        /\ \A i \in DOMAIN run.server :
              LET b == run.server[i]
              IN  (/\ b.status # "black"
                   /\ b.departure[1] - b.arrival[1] <= WindowDays
                   /\ b.arrival[1] <= cat.target /\ cat.target <= b.departure[1])
                  => Listed(b.id)
        /\ \A q \in DOMAIN fetched.results :
              \A k \in DOMAIN fetched.results[q].data :
                  fetched.results[q].data[k].status # "black"
                      => Listed(fetched.results[q].data[k].id)

\* a stay of exactly 30 nights over the target date, which only the
\* stay-through query returns, next to a longer stay that no query returns
C17_Witness ==
    /\ run.op = "pipeline"
    /\ \E i \in DOMAIN run.server :
          /\ run.server[i].status = "confirmed"
          /\ run.server[i].arrival[1] = cat.target - WindowDays + 1
          /\ run.server[i].departure[1] = cat.target + 1
          /\ \E k \in DOMAIN cat.stay_through :
                cat.stay_through[k].booking_id = run.server[i].id
          /\ fetched.results[1].data = <<>> /\ fetched.results[2].data = <<>>
    /\ \E i \in DOMAIN run.server :
          /\ run.server[i].status = "confirmed"
          /\ run.server[i].arrival[1] = cat.target - WindowDays - 1
          /\ run.server[i].departure[1] = cat.target + 1
          /\ ~Listed(run.server[i].id)
====
